---- MODULE Spec2Model ----
(***************************************************************************)
(* whisper-dictation.py: the recording session (RecordingManager), the     *)
(* capture/transcribe/type pipeline thread (Recorder._record_impl), the    *)
(* deadline timer (threading.Timer bound to RecordingManager.stop) and the *)
(* three key listeners, and the shutdown path of the main thread.          *)
(*                                                                         *)
(* Threads: the main thread, one key-listener thread (pynput delivers      *)
(* events one at a time), one pipeline thread per Recorder.start, one      *)
(* timer thread per threading.Timer.  Each action is one statement of one  *)
(* thread that touches shared state; prints and local computations are     *)
(* folded into the neighbouring statement, and so is a statement whose     *)
(* effect no other thread can tell apart from its neighbour's (opening the *)
(* stream after line 85, reading a chunk after the test of line 95,        *)
(* Timer.start after Timer()).  Labels carry the source line of the        *)
(* statement the thread executes next.  A thread's locals are dropped when *)
(* the thread ends.                                                        *)
(*                                                                         *)
(* Spec is the program while the main thread waits in listener.join();     *)
(* ShutdownSpec adds the KeyboardInterrupt and the shutdown path.          *)
(*                                                                         *)
(* Time is counted in ticks of a quarter of a second.  time.time() is not  *)
(* stored; last_press_age is current time minus last_press_time, capped at *)
(* TapWindow (every comparison in the source is "< 0.5").  last_press_time *)
(* starts at 0 and time.time() is seconds since 1970, so the age starts    *)
(* capped.  A key handler, and the shutdown path, complete within a tick.  *)
(***************************************************************************)
EXTENDS Integers, FiniteSets, Sequences, TLC

\* ---- bounds ----
MaxSessions == 2
MaxFrames == 1
MaxText == 2
MaxTimeTicks == 1

\* ---- program constants ----
\* 0.5 s (lines 187, 206) in quarter-second ticks
TapWindow == 2

Sessions == 1..MaxSessions
Modes == {"api", "chord", "double", "ptt"}
Keys == {"key1", "key2", "other"}

VARIABLES
  mode,            \* which listener drives the manager (lines 283-288); "api": direct calls
  max_time,        \* RecordingManager.max_time in ticks; 0 is None
  mgr_recording,   \* RecordingManager.recording
  mgr_timer,       \* RecordingManager.timer: 0 is None, k the timer created by session k
  rec_recording,   \* Recorder.recording
  nsess,           \* number of sessions started so far; the latest session's id
  ppc,             \* pipeline thread of session k: statement it executes next
  frames,          \* len(frames) of pipeline k, saturating at MaxFrames
  text,            \* len(transcription) of pipeline k
  emitted,         \* characters typed by pipeline k
  typed,           \* the input focus: for each character typed since the last moment no
                   \* pipeline was typing, in order, the session whose pipeline typed it
  mic,             \* the input device: parity of the number of chunks read from it since
                   \* no stream was open on it
  tstate,          \* timer k: "none", "wait", a stop() label, "fin" (callback ran), "dead" (it did not)
  finished,        \* timer k: threading.Timer.finished event
  remaining,       \* timer k: ticks left of its interval
  lpc,             \* listener thread: statement it executes next, "idle" between events
  lret,            \* listener thread: where start()/stop() returns to
  main,            \* main thread: "join" (line 295), a label of its stop(), "exit" (its
                   \* code has ended), "gone" (the process has ended)
  key1_pressed,    \* GlobalKeyListener.key1_pressed
  key2_pressed,    \* GlobalKeyListener.key2_pressed
  active,          \* PushToTalkListener.active
  last_press_age,  \* time.time() - last_press_time, capped at TapWindow
  fold,            \* history: flag predicted by folding the listener's calls made so far
  lastStopped,     \* history: session whose flag a stop() last moved to Idle (0: none)
  manual,          \* history: how a stop() of the listener or of the shutdown path acted on
                   \* session k: "no", or "early" (its timer still had time to wait) or "late"
  stoppedEmpty,    \* history: sessions whose pipeline has not left its loop yet and had
                   \* read no chunk when the stop() that ended them had returned
  sinceStart,      \* history: ticks since the flag last became Recording, capped
  ev               \* history: the key event being handled

vars == <<mode, max_time, mgr_recording, mgr_timer, rec_recording, nsess, ppc,
          frames, text, emitted, typed, mic, tstate, finished, remaining, lpc, lret, main,
          key1_pressed, key2_pressed, active, last_press_age,
          fold, lastStopped, manual, stoppedEmpty, sinceStart, ev>>

mgrVars == <<mgr_recording, mgr_timer>>
recVars == <<rec_recording, stoppedEmpty>>
pipeVars == <<ppc, frames, text, emitted, typed, mic>>
timerVars == <<tstate, finished, remaining>>
keyVars == <<key1_pressed, key2_pressed, active, last_press_age>>
cfgVars == <<mode, max_time>>

NoEv == [kind |-> "none", rec |-> FALSE, act |-> FALSE, age |-> 0, sess |-> 0, call |-> "none"]

StopLabels == {"stop137", "stop139", "stop141", "stop142"}
CaptureLabels == {"rec95"}

Min(a, b) == IF a < b THEN a ELSE b

Range(f) == {f[i] : i \in DOMAIN f}

\* ---- RecordingManager.__init__, Recorder.__init__, listeners' __init__ ----
Init ==
  /\ mode \in Modes
  /\ max_time \in {0, MaxTimeTicks}
  /\ mgr_recording = FALSE
  /\ mgr_timer = 0
  /\ rec_recording = FALSE
  /\ nsess = 0
  /\ ppc = [k \in Sessions |-> "none"]
  /\ frames = [k \in Sessions |-> 0]
  /\ text = [k \in Sessions |-> 0]
  /\ emitted = [k \in Sessions |-> 0]
  /\ typed = <<>>
  /\ mic = 0
  /\ tstate = [k \in Sessions |-> "none"]
  /\ finished = [k \in Sessions |-> FALSE]
  /\ remaining = [k \in Sessions |-> 0]
  /\ lpc = "idle"
  /\ lret = "idle"
  /\ main = "join"
  /\ key1_pressed = FALSE
  /\ key2_pressed = FALSE
  /\ active = FALSE
  /\ last_press_age = TapWindow
  /\ fold = FALSE
  /\ lastStopped = 0
  /\ manual = [k \in Sessions |-> "no"]
  /\ stoppedEmpty = {}
  /\ sinceStart = 0
  /\ ev = NoEv

\* ---- the transition rules the calls are folded with ----
Fold(op, f) ==
  CASE op = "start" -> TRUE
    [] op = "stop" -> FALSE
    [] op = "toggle" -> ~f

Entry(op) ==
  CASE op = "start" -> "start128"
    [] op = "stop" -> "stop137"
    [] op = "toggle" -> "toggle146"

\* ---- tests of the manager's methods ----
\* line 128
StartTest_always == TRUE

StartTest == ~mgr_recording
\* line 137
StopTest == mgr_recording
\* line 146
ToggleTest_never == FALSE

ToggleTest == mgr_recording

\* lines 138-139: if self.timer is not None: self.timer.cancel()
StopCancel_none == finished' = finished

StopCancel ==
  finished' = IF mgr_timer # 0 THEN [finished EXCEPT ![mgr_timer] = TRUE] ELSE finished

\* history of line 139 run by a thread other than a timer's: was the session's
\* timer still waiting for its interval
StopManual ==
  manual' = [manual EXCEPT ![nsess] =
               IF tstate[nsess] = "wait" /\ remaining[nsess] > 0 THEN "early" ELSE "late"]

\* line 141 (with the history of which session was stopped)
StopSetIdle ==
  /\ mgr_recording' = FALSE
  /\ lastStopped' = IF mgr_recording THEN nsess ELSE lastStopped
  /\ sinceStart' = 0

\* threads inside the body of stop(): timer thread k, 0 for the listener
\* thread, -1 for the main thread
InStop ==
  (IF lpc \in StopLabels THEN {0} ELSE {})
    \cup (IF main \in StopLabels THEN {-1} ELSE {})
    \cup {k \in Sessions : tstate[k] \in StopLabels}

\* Recorder.stop, line 82 (with the history of the sessions that this stop(),
\* the only one running, leaves stopped with no chunk read)
RecorderStop ==
  /\ rec_recording' = FALSE
  /\ stoppedEmpty' =
       IF Cardinality(InStop) = 1
       THEN stoppedEmpty \cup
              {k \in 1..lastStopped : ppc[k] \in {"rec85", "rec95"} /\ frames[k] = 0}
       ELSE stoppedEmpty

\* return from start()/stop() on the listener thread
Return == lpc' = lret /\ lret' = "idle"

\* ---- the listener thread: RecordingManager.start ----
L_start128 ==
  /\ lpc = "start128"
  /\ IF StartTest THEN lpc' = "start130" /\ lret' = lret ELSE Return
  /\ UNCHANGED <<cfgVars, main, mgrVars, recVars, nsess, pipeVars, timerVars, keyVars,
                 fold, lastStopped, manual, sinceStart, ev>>

L_start130 ==
  /\ lpc = "start130"
  /\ mgr_recording' = TRUE
  /\ nsess' = nsess + 1
  /\ sinceStart' = 0
  /\ lpc' = "start131"
  /\ UNCHANGED <<cfgVars, main, mgr_timer, recVars, pipeVars, timerVars, lret, keyVars,
                 fold, lastStopped, manual, ev>>

\* Recorder.start, lines 78-79: the pipeline thread exists, has run nothing yet
L_start131 ==
  /\ lpc = "start131"
  /\ ppc' = [ppc EXCEPT ![nsess] = "rec85"]
  /\ IF max_time # 0 THEN lpc' = "start133" /\ lret' = lret ELSE Return
  /\ UNCHANGED <<cfgVars, main, mgrVars, recVars, nsess, frames, text, emitted, typed, mic, timerVars,
                 keyVars, fold, lastStopped, manual, sinceStart, ev>>

\* lines 133-134: self.timer = threading.Timer(...); self.timer.start()
L_start133_unarmed ==
  /\ lpc = "start133"
  /\ mgr_timer' = nsess
  /\ Return
  /\ UNCHANGED <<cfgVars, main, mgr_recording, recVars, nsess, pipeVars, timerVars,
                 keyVars, fold, lastStopped, manual, sinceStart, ev>>

L_start133 ==
  /\ lpc = "start133"
  /\ mgr_timer' = nsess
  /\ tstate' = [tstate EXCEPT ![nsess] = "wait"]
  /\ remaining' = [remaining EXCEPT ![nsess] = max_time]
  /\ Return
  /\ UNCHANGED <<cfgVars, main, mgr_recording, recVars, nsess, pipeVars, finished,
                 keyVars, fold, lastStopped, manual, sinceStart, ev>>

\* ---- the listener thread: RecordingManager.stop ----
L_stop137 ==
  /\ lpc = "stop137"
  /\ IF StopTest THEN lpc' = "stop139" /\ lret' = lret ELSE Return
  /\ UNCHANGED <<cfgVars, main, mgrVars, recVars, nsess, pipeVars, timerVars, keyVars,
                 fold, lastStopped, manual, sinceStart, ev>>

L_stop139 ==
  /\ lpc = "stop139"
  /\ StopCancel
  /\ StopManual
  /\ lpc' = "stop141"
  /\ UNCHANGED <<cfgVars, main, mgrVars, recVars, nsess, pipeVars, tstate, remaining, lret,
                 keyVars, fold, lastStopped, sinceStart, ev>>

L_stop141 ==
  /\ lpc = "stop141"
  /\ StopSetIdle
  /\ lpc' = "stop142"
  /\ UNCHANGED <<cfgVars, main, mgr_timer, recVars, nsess, pipeVars, timerVars, lret, keyVars,
                 fold, manual, ev>>

L_stop142 ==
  /\ lpc = "stop142"
  /\ RecorderStop
  /\ Return
  /\ UNCHANGED <<cfgVars, main, mgrVars, nsess, pipeVars, timerVars, keyVars,
                 fold, lastStopped, manual, sinceStart, ev>>

\* ---- the listener thread: RecordingManager.toggle ----
L_toggle146 ==
  /\ lpc = "toggle146"
  /\ lpc' = IF ToggleTest THEN "stop137" ELSE "start128"
  /\ UNCHANGED <<cfgVars, main, mgrVars, recVars, nsess, pipeVars, timerVars, lret, keyVars,
                 fold, lastStopped, manual, sinceStart, ev>>

\* ---- a timer thread: threading.Timer.run calling RecordingManager.stop ----
timerFrame == <<cfgVars, nsess, pipeVars, lpc, lret, main, keyVars, fold, manual, sinceStart, ev>>

\* the callback returned: Timer.run sets finished and the thread ends
TimerReturn(k) ==
  /\ tstate' = [tstate EXCEPT ![k] = "fin"]
  /\ finished' = [finished EXCEPT ![k] = TRUE]

\* finished.wait(interval) returns; the callback runs unless finished is set
T_wake(k) ==
  /\ tstate[k] = "wait"
  /\ remaining[k] = 0 \/ finished[k]
  /\ tstate' = [tstate EXCEPT ![k] = IF finished[k] THEN "dead" ELSE "stop137"]
  /\ remaining' = [remaining EXCEPT ![k] = 0]
  /\ UNCHANGED <<timerFrame, mgrVars, recVars, finished, lastStopped>>

T_stop137(k) ==
  /\ tstate[k] = "stop137"
  /\ IF StopTest
     THEN tstate' = [tstate EXCEPT ![k] = "stop139"] /\ finished' = finished
     ELSE TimerReturn(k)
  /\ UNCHANGED <<timerFrame, mgrVars, recVars, remaining, lastStopped>>

T_stop139(k) ==
  /\ tstate[k] = "stop139"
  /\ StopCancel
  /\ tstate' = [tstate EXCEPT ![k] = "stop141"]
  /\ UNCHANGED <<timerFrame, mgrVars, recVars, remaining, lastStopped>>

T_stop141(k) ==
  /\ tstate[k] = "stop141"
  /\ StopSetIdle
  /\ tstate' = [tstate EXCEPT ![k] = "stop142"]
  /\ UNCHANGED <<cfgVars, nsess, pipeVars, lpc, lret, main, keyVars, fold, manual, ev,
                 mgr_timer, recVars, finished, remaining>>

T_stop142(k) ==
  /\ tstate[k] = "stop142"
  /\ RecorderStop
  /\ TimerReturn(k)
  /\ UNCHANGED <<timerFrame, mgrVars, remaining, lastStopped>>

\* ---- a pipeline thread: Recorder._record_impl ----
pipeFrame == <<cfgVars, mgrVars, nsess, timerVars, lpc, lret, main, keyVars,
               fold, lastStopped, manual, sinceStart, ev>>

\* pipeline threads between the opening of the stream and the end of the loop
Capturing == {k \in Sessions : ppc[k] \in CaptureLabels}

\* lines 85-93: the flag is set, then p.open raises (the thread dies) or the
\* input stream is open
P_rec85(k, ok) ==
  /\ ppc[k] = "rec85"
  /\ rec_recording' = TRUE
  /\ ppc' = [ppc EXCEPT ![k] = IF ok THEN "rec95" ELSE "failed"]
  /\ stoppedEmpty' = IF ok THEN stoppedEmpty ELSE stoppedEmpty \ {k}
  /\ UNCHANGED <<pipeFrame, frames, text, emitted, typed, mic>>

\* line 95: while self.recording
LoopTest == rec_recording

\* lines 99-106: after the loop the stream is closed and transcribe is called
AfterLoop_typing == "rec111"

AfterLoop == "rec106"

\* the device after pipeline k has left its loop: idle unless another stream
\* is open on it
Released(k) == IF Capturing = {k} THEN 0 ELSE mic

\* lines 95-97: one turn of the loop; stream.read raises (the thread dies) or
\* a chunk is taken from the device and appended.  Lines 95, 99-101: the loop
\* ends and the stream is closed
P_rec95(k, ok) ==
  /\ ppc[k] = "rec95"
  /\ IF LoopTest
     THEN IF ok
          THEN /\ frames' = [frames EXCEPT ![k] = Min(frames[k] + 1, MaxFrames)]
               /\ mic' = 1 - mic
               /\ UNCHANGED <<ppc, stoppedEmpty>>
          ELSE /\ frames' = [frames EXCEPT ![k] = 0]
               /\ mic' = Released(k)
               /\ ppc' = [ppc EXCEPT ![k] = "failed"]
               /\ stoppedEmpty' = stoppedEmpty \ {k}
     ELSE /\ ok
          /\ frames' = frames
          /\ mic' = Released(k)
          /\ ppc' = [ppc EXCEPT ![k] = AfterLoop]
          /\ stoppedEmpty' = stoppedEmpty
  /\ UNCHANGED <<pipeFrame, rec_recording, text, emitted, typed>>

\* lines 103-108, 117: transcribe raises (the thread dies) or returns a text
\* of n characters
P_rec106(k, ok, n) ==
  /\ ppc[k] = "rec106"
  /\ frames' = [frames EXCEPT ![k] = 0]
  /\ stoppedEmpty' = stoppedEmpty \ {k}
  /\ IF ok
     THEN /\ text' = [text EXCEPT ![k] = n]
          /\ ppc' = [ppc EXCEPT ![k] = IF n = 0 THEN "done" ELSE "rec111"]
     ELSE /\ n = 0
          /\ text' = text
          /\ ppc' = [ppc EXCEPT ![k] = "failed"]
  /\ UNCHANGED <<pipeFrame, rec_recording, emitted, typed, mic>>

\* pipelines that are typing their transcription
Typing == {j \in Sessions : ppc[j] \in {"rec111", "rec113"}}

\* the thread of pipeline k ends after its typing phase; its locals are gone,
\* and the record of the input focus starts afresh once nobody is typing
EndTyping(k) ==
  /\ ppc' = [ppc EXCEPT ![k] = "done"]
  /\ emitted' = [emitted EXCEPT ![k] = 0]
  /\ text' = [text EXCEPT ![k] = 0]
  /\ typed' = IF Typing = {k} THEN <<>> ELSE typed

\* lines 110-112, 114-115: pykeyboard.type puts one character into the input
\* focus, or raises and the handler of line 114 ends the typing
P_rec111(k, ok) ==
  /\ ppc[k] = "rec111"
  /\ IF ok
     THEN /\ typed' = Append(typed, k)
          /\ emitted' = [emitted EXCEPT ![k] = emitted[k] + 1]
          /\ ppc' = [ppc EXCEPT ![k] = IF emitted[k] + 1 < text[k] THEN "rec111" ELSE "rec113"]
          /\ text' = text
     ELSE EndTyping(k)
  /\ UNCHANGED <<pipeFrame, recVars, frames, mic>>

\* line 113: every character is typed and the thread ends
P_rec113(k) ==
  /\ ppc[k] = "rec113"
  /\ EndTyping(k)
  /\ UNCHANGED <<pipeFrame, recVars, frames, mic>>

\* ---- key events reaching the listener thread ----
\* An event whose handler may start a session is taken only while the model
\* has a session left; presses of keys a listener ignores change nothing and
\* are left out.
CanStart == nsess < MaxSessions

\* lines 290-298: the listener delivers key events until listener.stop()
Listening == main = "join"

\* the listener thread enters start(), stop() or toggle()
Call(op, ret) ==
  /\ lpc' = Entry(op)
  /\ lret' = ret
  /\ fold' = Fold(op, fold)

evFrame == <<cfgVars, mgrVars, recVars, nsess, pipeVars, timerVars, main,
             lastStopped, manual, sinceStart>>

\* the manager called directly, in any order
ApiCall(op) ==
  /\ mode = "api"
  /\ Listening
  /\ lpc = "idle"
  /\ op = "stop" \/ CanStart
  /\ Call(op, "idle")
  /\ UNCHANGED <<evFrame, keyVars, ev>>

\* GlobalKeyListener.on_key_press, lines 164-170
BothPressed(p1, p2) == p1 /\ p2

ChordPress(key) ==
  /\ mode = "chord"
  /\ Listening
  /\ lpc = "idle"
  /\ key1_pressed' = (key1_pressed \/ key = "key1")
  /\ key2_pressed' = (key2_pressed \/ key = "key2")
  /\ CanStart \/ ~BothPressed(key1_pressed', key2_pressed')
  /\ IF BothPressed(key1_pressed', key2_pressed')
     THEN Call("toggle", "idle")
     ELSE UNCHANGED <<lpc, lret, fold>>
  /\ UNCHANGED <<evFrame, active, last_press_age, ev>>

\* GlobalKeyListener.on_key_release, lines 172-176
ChordRelease(key) ==
  /\ mode = "chord"
  /\ Listening
  /\ lpc = "idle"
  /\ key1_pressed' = (key1_pressed /\ key # "key1")
  /\ key2_pressed' = (key2_pressed /\ key # "key2")
  /\ UNCHANGED <<evFrame, lpc, lret, fold, active, last_press_age, ev>>

\* line 187 / line 206: current_time - self.last_press_time < 0.5
Quick == last_press_age < TapWindow

\* line 187
DoubleArm_untimed == ~mgr_recording

DoubleArm == ~mgr_recording /\ Quick

\* DoubleCommandKeyListener.on_key_press, lines 184-188 (key == cmd_r)
DoublePress ==
  /\ mode = "double"
  /\ Listening
  /\ lpc = "idle"
  /\ CanStart \/ ~DoubleArm
  /\ ev' = [kind |-> "press", rec |-> mgr_recording, act |-> FALSE, age |-> last_press_age,
            sess |-> nsess, call |-> IF DoubleArm THEN "start" ELSE "none"]
  /\ IF DoubleArm
     THEN Call("start", "dbl191")
     ELSE lpc' = "dbl189" /\ UNCHANGED <<lret, fold>>
  /\ UNCHANGED <<evFrame, keyVars>>

\* lines 189-190
L_dbl189 ==
  /\ lpc = "dbl189"
  /\ IF mgr_recording
     THEN Call("stop", "dbl191") /\ ev' = [ev EXCEPT !.call = "stop"]
     ELSE lpc' = "dbl191" /\ UNCHANGED <<lret, fold, ev>>
  /\ UNCHANGED <<evFrame, keyVars>>

\* line 191
L_dbl191 ==
  /\ lpc = "dbl191"
  /\ last_press_age' = 0
  /\ lpc' = "idle"
  /\ ev' = NoEv
  /\ UNCHANGED <<evFrame, lret, fold, key1_pressed, key2_pressed, active>>

\* line 207
PttActivate_forgotten == active' = active

PttActivate == active' = TRUE

\* line 206
PttArm_untimed == ~active

PttArm == ~active /\ Quick

\* PushToTalkListener.on_key_press, lines 203-209 (key == cmd_l); the tone
\* thread of line 208 shares no state with the session and is left out

PttPress ==
  /\ mode = "ptt"
  /\ Listening
  /\ lpc = "idle"
  /\ CanStart \/ ~PttArm
  /\ ev' = [kind |-> "press", rec |-> mgr_recording, act |-> active, age |-> last_press_age,
            sess |-> nsess, call |-> IF PttArm THEN "start" ELSE "none"]
  /\ IF PttArm
     THEN PttActivate /\ Call("start", "ptt210")
     ELSE lpc' = "ptt210" /\ UNCHANGED <<active, lret, fold>>
  /\ UNCHANGED <<evFrame, key1_pressed, key2_pressed, last_press_age>>

\* line 210
L_ptt210 ==
  /\ lpc = "ptt210"
  /\ last_press_age' = 0
  /\ lpc' = "idle"
  /\ ev' = NoEv
  /\ UNCHANGED <<evFrame, lret, fold, key1_pressed, key2_pressed, active>>

\* PushToTalkListener.on_key_release, lines 212-216
PttRelease ==
  /\ mode = "ptt"
  /\ Listening
  /\ lpc = "idle"
  /\ ev' = [kind |-> "release", rec |-> mgr_recording, act |-> active, age |-> last_press_age,
            sess |-> nsess, call |-> IF active THEN "stop" ELSE "none"]
  /\ IF active
     THEN active' = FALSE /\ Call("stop", "ptt217")
     ELSE lpc' = "ptt217" /\ UNCHANGED <<active, lret, fold>>
  /\ UNCHANGED <<evFrame, key1_pressed, key2_pressed, last_press_age>>

\* on_key_release returns
L_ptt217 ==
  /\ lpc = "ptt217"
  /\ lpc' = "idle"
  /\ ev' = NoEv
  /\ UNCHANGED <<evFrame, lret, fold, keyVars>>

\* ---- the main thread: the shutdown path, lines 294-300 ----
mainFrame == <<cfgVars, nsess, pipeVars, tstate, remaining, lpc, lret, keyVars, sinceStart, ev>>

\* lines 296-299, 137: KeyboardInterrupt ends listener.join(); listener.stop();
\* the flag is tested (again by stop() itself) and stop() is entered or the
\* main thread ends
Interrupt ==
  /\ main = "join"
  /\ main' = IF mgr_recording /\ StopTest THEN "stop139" ELSE "exit"
  /\ UNCHANGED <<mainFrame, mgrVars, recVars, finished, fold, lastStopped, manual>>

M_stop139 ==
  /\ main = "stop139"
  /\ StopCancel
  /\ StopManual
  /\ main' = "stop141"
  /\ UNCHANGED <<mainFrame, mgrVars, recVars, fold, lastStopped>>

M_stop141 ==
  /\ main = "stop141"
  /\ StopSetIdle
  /\ main' = "stop142"
  /\ UNCHANGED <<cfgVars, nsess, pipeVars, timerVars, lpc, lret, keyVars, ev,
                 mgr_timer, recVars, fold, manual>>

M_stop142 ==
  /\ main = "stop142"
  /\ RecorderStop
  /\ main' = "exit"
  /\ UNCHANGED <<mainFrame, mgrVars, finished, fold, lastStopped, manual>>

\* every pipeline thread and every timer thread has ended
Terminated ==
  /\ \A k \in Sessions : ppc[k] \in {"none", "done", "failed"}
  /\ \A k \in Sessions : tstate[k] \in {"none", "fin", "dead"}

\* after line 300: the interpreter waits for the threads that are not daemons
\* (pipelines, timers), then the process ends and the listener thread with it
Finalize ==
  /\ main = "exit"
  /\ Terminated
  /\ main' = "gone"
  /\ UNCHANGED <<mainFrame, mgrVars, recVars, finished, fold, lastStopped, manual>>

\* the listener thread runs as long as the process does
Alive == main # "gone"

\* ---- a quarter of a second passes ----
\* A waiting timer whose interval is over wakes before more time passes.
TimerDue(k) == tstate[k] = "wait" /\ remaining[k] = 0 /\ ~finished[k]

Tick ==
  /\ lpc = "idle"
  /\ main \in {"join", "exit"}
  /\ \A k \in Sessions : ~TimerDue(k)
  /\ remaining' = [k \in Sessions |->
                     IF tstate[k] = "wait" /\ remaining[k] > 0
                     THEN remaining[k] - 1 ELSE remaining[k]]
  /\ last_press_age' = IF mode \in {"double", "ptt"}
                       THEN Min(last_press_age + 1, TapWindow) ELSE last_press_age
  /\ sinceStart' = IF mgr_recording /\ max_time # 0 THEN Min(sinceStart + 1, MaxTimeTicks + 1) ELSE sinceStart
  /\ UNCHANGED <<cfgVars, mgrVars, recVars, nsess, pipeVars, tstate, finished, lpc, lret,
                 main, key1_pressed, key2_pressed, active, fold, lastStopped, manual, ev>>

\* ---- the system ----
\* the listener thread inside start(), stop() or toggle()
ManagerStep ==
  \/ L_start128 \/ L_start130 \/ L_start131 \/ L_start133
  \/ L_stop137 \/ L_stop139 \/ L_stop141 \/ L_stop142
  \/ L_toggle146

ListenerStep ==
  \/ ManagerStep
  \/ L_dbl189 \/ L_dbl191 \/ L_ptt210 \/ L_ptt217

MainStep ==
  \/ M_stop139 \/ M_stop141 \/ M_stop142

\* the listener thread inside the manager while the process runs
ManagerAlive == Alive /\ ManagerStep

TimerStep(k) ==
  \/ T_wake(k) \/ T_stop137(k) \/ T_stop139(k) \/ T_stop141(k) \/ T_stop142(k)

PipeStep(k) ==
  \/ \E ok \in BOOLEAN : P_rec85(k, ok)
  \/ \E ok \in BOOLEAN : P_rec95(k, ok)
  \/ \E ok \in BOOLEAN, n \in 0..MaxText : P_rec106(k, ok, n)
  \/ \E ok \in BOOLEAN : P_rec111(k, ok)
  \/ P_rec113(k)

\* the steps of pipeline k in which nothing raises
PipeRun(k) ==
  \/ P_rec85(k, TRUE)
  \/ P_rec95(k, TRUE)
  \/ \E n \in 0..MaxText : P_rec106(k, TRUE, n)
  \/ P_rec111(k, TRUE)
  \/ P_rec113(k)

KeyEvent ==
  \/ \E op \in {"start", "stop", "toggle"} : ApiCall(op)
  \/ \E key \in Keys : ChordPress(key)
  \/ \E key \in Keys : ChordRelease(key)
  \/ DoublePress
  \/ PttPress
  \/ PttRelease

\* The program while the main thread waits in listener.join() (line 295).
Next ==
  \/ KeyEvent
  \/ ListenerStep
  \/ \E k \in Sessions : TimerStep(k)
  \/ \E k \in Sessions : PipeStep(k)
  \/ Tick

Spec == Init /\ [][Next]_vars

\* Threads that can run do run, and time passes; nobody has to press a key
\* and nothing has to raise.
FairSpec ==
  /\ Spec
  /\ WF_vars(ListenerStep)
  /\ \A k \in Sessions : WF_vars(TimerStep(k))
  /\ \A k \in Sessions : WF_vars(PipeRun(k))
  /\ WF_vars(Tick)

\* The program up to its end: the manager called directly or through the
\* chord listener (the default), interrupted at any moment.
ShutdownInit == Init /\ mode \in {"api", "chord"}

ShutdownNext ==
  \/ \E op \in {"start", "stop", "toggle"} : ApiCall(op)
  \/ \E key \in Keys : ChordPress(key)
  \/ \E key \in Keys : ChordRelease(key)
  \/ ManagerAlive
  \/ Interrupt
  \/ MainStep
  \/ Finalize
  \/ \E k \in Sessions : TimerStep(k)
  \/ \E k \in Sessions : PipeStep(k)
  \/ Tick

ShutdownSpec ==
  /\ ShutdownInit /\ [][ShutdownNext]_vars
  /\ WF_vars(ManagerAlive)
  /\ WF_vars(MainStep \/ Finalize)
  /\ \A k \in Sessions : WF_vars(TimerStep(k))
  /\ \A k \in Sessions : WF_vars(PipeRun(k))
  /\ WF_vars(Tick)

TypeOK ==
  /\ mode \in Modes
  /\ nsess \in 0..MaxSessions
  /\ mgr_timer \in 0..MaxSessions
  /\ \A k \in Sessions : frames[k] \in 0..MaxFrames /\ emitted[k] <= text[k]

\* ---- vocabulary of the properties ----
\* some timer's callback has run stop(), or is running it
TimerFired == \E k \in Sessions : tstate[k] \in StopLabels \cup {"fin"}

\* timers that are armed, not cancelled and not finished
LiveTimers == {k \in Sessions : tstate[k] \in {"wait"} \cup StopLabels /\ ~finished[k]}

\* sessions a stop() of the listener or of the shutdown path ended while their
\* timer was still waiting
ManualEarly == {k \in Sessions : manual[k] = "early"}

\* a stop() of the listener or of the shutdown path has ended some session
ManualStop == \E k \in Sessions : manual[k] # "no"

\* no thread has a step left; the listener waits for the next key event
Quiescent ==
  /\ lpc = "idle"
  /\ main \in {"join", "exit"}
  /\ \A k \in Sessions : tstate[k] \in {"none", "fin", "dead"}
  /\ \A k \in Sessions : ppc[k] \in {"none", "done", "failed"}

\* the capture of session k is over: its loop has ended or its thread has died
CaptureOver(k) == ppc[k] \in {"rec106", "rec111", "rec113", "done", "failed"}

\* pipeline k types a character in this step
Types(k) == ppc[k] = "rec111" /\ typed' = Append(typed, k)

\* pipeline k has not got a transcription yet
BeforeText(k) == ppc[k] \in {"none", "rec85", "rec95", "rec106"}

\* C1: after each of a sequence of start()/stop()/toggle() calls, with no timer
\* callback having run and the shutdown path not entered, the manager's flag is
\* the fold of the calls under the rules start -> Recording, stop -> Idle,
\* toggle -> the other state.
C1_FlagIsFold == (lpc = "idle" /\ Listening /\ ~TimerFired) => (mgr_recording = fold)

C1_Witness ==
  /\ mode = "api" /\ lpc = "idle" /\ ~TimerFired
  /\ nsess = 2 /\ lastStopped = 1 /\ mgr_recording /\ fold

\* C2: at most one pipeline thread is in its capture phase.
C2_OneCapture == Cardinality(Capturing) <= 1

\* C3: once a stop() has moved session k from Recording to Idle, the capture
\* of session k ends, with every thread scheduled fairly and no further call.
C3_StopEndsCapture == \A k \in Sessions : (lastStopped = k) ~> CaptureOver(k)

\* C4: when the pipeline of the latest session has died and every thread has
\* run to its end, the listener waiting for the next key, the flag is Idle.
C4_FailureEndsIdle == (nsess # 0 /\ ppc[nsess] = "failed" /\ Quiescent) => ~mgr_recording

C6_CancelledNeverFires == \A k \in ManualEarly : tstate[k] \notin StopLabels \cup {"fin"}

C6_Witness == \E k \in ManualEarly : tstate[k] = "dead" /\ lastStopped = k

\* C7: at most one timer is live, and none while the session is Idle.
C7_OneLiveTimer ==
  /\ Cardinality(LiveTimers) <= 1
  /\ ~mgr_recording => LiveTimers = {}

\* C8: the chord listener calls toggle() on exactly the key events that take
\* the pair of designated keys from not both held to both held.
C8_ToggleOnEdge ==
  [][(mode = "chord" /\ lpc = "idle")
       => ((lpc' = "toggle146")
             <=> (~BothPressed(key1_pressed, key2_pressed)
                  /\ BothPressed(key1_pressed', key2_pressed')))]_vars

\* C9: a press of the designated key starts a session iff the flag was Idle
\* and the previous press was less than 0.5 s ago; a press while Recording
\* leaves the flag Idle; every press resets the time of the last press.
C9_DoubleTap ==
  /\ [](lpc = "dbl191" =>
          /\ (nsess > ev.sess) <=> (~ev.rec /\ ev.age < TapWindow)
          /\ ev.rec => ~mgr_recording)
  /\ [][(lpc = "dbl191" /\ lpc' = "idle") => last_press_age' = 0]_vars

C9_Witness ==
  /\ lpc = "dbl191" /\ nsess = 2 /\ ev.sess = 1 /\ ~ev.rec /\ mgr_recording
  /\ lastStopped = 1 /\ max_time = 0

\* C10: a press arms push-to-talk and starts a session iff the listener was
\* not active and the previous press was less than 0.5 s ago; sessions start
\* at no other moment; a release while active clears active, calls stop() and
\* leaves the flag Idle.
C10_PushToTalk ==
  /\ [](lpc = "ptt210" =>
          /\ (ev.call = "start") <=> (~ev.act /\ ev.age < TapWindow)
          /\ (ev.call = "start") <=> (nsess > ev.sess)
          /\ (ev.call = "start") => active)
  /\ [](lpc = "ptt217" =>
          (ev.act => (ev.call = "stop" /\ ~active /\ ~mgr_recording)))
  /\ [][(mode = "ptt" /\ nsess' # nsess)
          => (ev.kind = "press" /\ ~ev.act /\ ev.age < TapWindow)]_vars

C10_Witness ==
  /\ lpc = "ptt217" /\ ev.act /\ ev.rec /\ nsess = 1 /\ lastStopped = 1 /\ ~mgr_recording

\* C11: in each pipeline thread the capture loop has ended (and the stream is
\* closed with it) before transcribe is called, transcribe has returned
\* before a character is typed, and no character of a session is in the input
\* focus while that session still captures or transcribes.
C11_PipelineOrder ==
  /\ [](\A k \in Sessions :
          BeforeText(k) => (emitted[k] = 0 /\ text[k] = 0 /\ k \notin Range(typed)))
  /\ [][\A k \in Sessions :
          (ppc[k] # "rec106" /\ ppc'[k] = "rec106") => (ppc[k] = "rec95" /\ ~LoopTest)]_vars
  /\ [][\A k \in Sessions :
          (emitted'[k] > emitted[k] \/ Types(k))
            => (ppc[k] = "rec111" /\ emitted[k] < text[k] /\ Types(k))]_vars

C11_Witness ==
  \E k \in Sessions : ppc[k] = "rec113" /\ emitted[k] = MaxText /\ typed = <<k, k>>

\* C12: once the shutdown path has run (stop() if the flag was Recording,
\* nothing otherwise), every capture loop exits, every pipeline and timer
\* thread ends and the process terminates.
C12_ShutdownTerminates == (main = "exit") ~> (main = "gone")

\* pipeline threads spawned so far
Spawned == {k \in Sessions : ppc[k] # "none"}

\* timers armed so far
Armed == {k \in Sessions : tstate[k] # "none"}

\* C13: start() sets the flag, then spawns the pipeline thread, then arms the
\* timer; start() on a Recording session changes nothing; nsess counts the
\* Idle-to-Recording transitions of the flag and, outside the two statements
\* between the transition and the spawn, equals the number of pipeline threads
\* spawned; stop() on an Idle session cancels nothing and leaves the flags.
C13_StartOrder ==
  /\ [](Armed \subseteq Spawned /\ Spawned \subseteq 1..nsess)
  /\ [](lpc # "start131" => Cardinality(Spawned) = nsess)
  /\ [][(mgr_recording' /\ ~mgr_recording) <=> (nsess' = nsess + 1)]_vars
  /\ [][nsess' # nsess => nsess' = nsess + 1]_vars
  /\ [][(lpc = "start128" /\ lpc' # lpc /\ mgr_recording)
          => (lpc' = lret /\ UNCHANGED <<mgrVars, rec_recording, nsess, ppc, timerVars>>)]_vars
  /\ [][(lpc = "stop137" /\ lpc' # lpc /\ ~mgr_recording)
          => (lpc' = lret /\ UNCHANGED <<mgrVars, rec_recording, nsess, ppc, timerVars>>)]_vars
  /\ [][\A k \in Sessions :
          (tstate[k] = "stop137" /\ tstate'[k] # "stop137" /\ ~mgr_recording)
            => (tstate'[k] = "fin"
                /\ UNCHANGED <<mgrVars, rec_recording>>
                /\ \A j \in Sessions \ {k} : finished'[j] = finished[j])]_vars

C13_Witness ==
  /\ mode = "api" /\ lpc = "start128" /\ mgr_recording
  /\ nsess = 1 /\ ppc[1] = "rec95" /\ tstate[1] = "wait"

\* threads inside start(), stop() or toggle()
InCall ==
  (IF lpc \in {"start128", "start130", "start131", "start133", "toggle146"} \cup StopLabels
   THEN {0} ELSE {})
    \cup {k \in Sessions : tstate[k] \in StopLabels}

\* the same program with the bodies of start(), stop() and toggle() mutually
\* exclusive: the states the serial orders of the calls produce
SerialSpec == Init /\ [][Next /\ Cardinality(InCall)' <= 1]_vars

\* what every serial order of the calls leaves behind: a Recording session
\* has its own timer live (when a max duration is set) and no other, an Idle
\* one has none
SerialOutcome ==
  LiveTimers = IF mgr_recording /\ max_time # 0 THEN {nsess} ELSE {}

\* C14: whenever no start(), stop() or toggle() is in progress, the flag and
\* the set of live timers are as some serial order of the calls made so far
\* leaves them.
C14_Serializable == (InCall = {}) => SerialOutcome

\* C15: a pipeline thread that has called transcribe goes on to type or ends
\* normally; it does not die of an exception raised by transcribe.
C15_TranscribeFailureHandled ==
  [][\A k \in Sessions : ppc[k] = "rec106" => ppc'[k] # "failed"]_vars

\* C16: a session that was stopped before its loop had read a chunk hands an
\* empty buffer to transcribe (the buffer is what the session's own loop read
\* between its start and the stop that ended it).
C16_OwnChunks ==
  \A k \in stoppedEmpty : ppc[k] = "rec106" => frames[k] = 0

\* timer thread k takes a step of stop()
TimerStops(k) == tstate[k] \in StopLabels /\ tstate'[k] # tstate[k]

\* C17: the stop() run by the timer of session k cancels no timer of a later
\* session, moves the flag to Idle only while session k is the latest, and
\* clears the capture flag only while no later session captures.
C17_TimerEndsOwnSession ==
  [][\A k \in Sessions :
       TimerStops(k) =>
         /\ \A j \in Sessions : j > k => finished'[j] = finished[j]
         /\ (mgr_recording /\ ~mgr_recording') => nsess = k
         /\ (rec_recording /\ ~rec_recording') => \A j \in Capturing : j <= k]_vars

\* C18 as stated: with the push-to-talk listener, in every reachable state a
\* Recording session implies that the listener is active.
C18_RecordingImpliesActive == (mode = "ptt" /\ mgr_recording) => active

\* C18 as amended: a Recording session implies that the listener is active,
\* except while the release handler that cleared active is inside stop() and
\* has not reached line 141 yet; a release that finds the session already
\* Idle clears active and leaves it Idle.
C18_ActiveUnlessReleasing ==
  /\ (mode = "ptt" /\ mgr_recording /\ ~active)
       => (ev.kind = "release" /\ ev.act /\ lpc \in {"stop137", "stop139", "stop141"})
  /\ (mode = "ptt" /\ lpc = "idle" /\ mgr_recording) => active
  /\ (lpc = "ptt217" /\ ev.act) => (~active /\ ~mgr_recording)

C18_Witness ==
  /\ lpc = "ptt217" /\ ev.act /\ ~ev.rec /\ ~active
  /\ nsess = 1 /\ lastStopped = 1 /\ tstate[1] = "fin" /\ manual[1] = "no"

\* the characters of each session are next to each other
Contiguous(seq) ==
  \A i, j, l \in DOMAIN seq : (i < j /\ j < l /\ seq[i] = seq[l]) => seq[j] = seq[i]

\* C19: the characters typed while pipelines overlap are not interleaved
\* across sessions, and each session has typed a prefix of its transcription.
C19_NoInterleaving ==
  /\ Contiguous(typed)
  /\ \A k \in Sessions : emitted[k] <= text[k]
====
